---------------------------- MODULE Spec2Model ----------------------------
(***************************************************************************)
(* State-machine model of audit_logs/audit_system.py: the file-backed      *)
(* session document, the checkpoint counter file, the snapshot and report  *)
(* files, and the commands and methods that read and write them.           *)
(*                                                                         *)
(* Left out of the model: timestamps, the session uuid, the console/log    *)
(* output and the Markdown texts.  None of them is read back by the code   *)
(* paths modelled here.                                                    *)
(***************************************************************************)
EXTENDS Integers, Sequences, FiniteSets, TLC

VARIABLES
    session_file,   \* session_state/current_session.json: <<>> (absent) or <<document>>
    counter_file,   \* session_state/checkpoint_counter.txt: <<>> (absent) or <<integer>>
    checkpoints,    \* checkpoints/checkpoint_<id>.json: set of [id, doc]
    pages_dir,      \* pages/<page>_<phase>_results.json and pages/<page>_summary.md
    reports,        \* reports/final_audit_report_*.json, in order of creation
    issued,         \* history: every checkpoint id built so far, in order
    run,            \* in-memory position of the running command (lost on restart);
                    \* with two processes, the position and local variables of each
    calls,          \* history: number of direct method calls made so far
    lastCall        \* history: the last call that finished and what it returned

vars == <<session_file, counter_file, checkpoints, pages_dir, reports, issued, run, calls, lastCall>>

----------------------------------------------------------------------------
(* Bounds of the model *)

\* Number of registry entries (in declared order) the orchestrator iterates.
NumPages == 2

\* Total number of checkpoint identifiers handed out in one behaviour.
MaxIssued == 20

\* Number of final reports written in one behaviour.
MaxReports == 1

\* Number of direct method calls (outside the commands) in one behaviour.
MaxCalls == 3

\* Largest value of one severity counter in the tallies SpecHealth starts from.
MaxTally == 4

\* Number of direct phase-function calls in one behaviour of SpecPhases.
MaxPhaseCalls == 1

\* Number of calls the two processes of SpecConcurrent make together.
MaxConcurrentCalls == 3

----------------------------------------------------------------------------
(* The page registry, InventoryAuditSystem.pages, in declared order *)

Registry ==
    << "home", "dashboard", "products", "image-cataloging", "scan", "orders",
       "customers", "reports", "inventory-alerts", "ai-assistant",
       "ai-assistant-custom-agents", "ai-assistant-settings", "settings" >>

\* list(self.pages.keys()), cut to the first NumPages entries
Pages == SubSeq(Registry, 1, IF NumPages < Len(Registry) THEN NumPages ELSE Len(Registry))

Range(s) == { s[i] : i \in 1..Len(s) }

PageSet == Range(Pages)

\* A page key that is not in the registry
UnknownPage == "no-such-page"

\* Page names a caller may pass
PageNames == PageSet \cup {UnknownPage}

\* str.upper() on the names the model passes
Upper(s) ==
    CASE s = "home" -> "HOME"
      [] s = "dashboard" -> "DASHBOARD"
      [] s = "products" -> "PRODUCTS"
      [] s = "image-cataloging" -> "IMAGE-CATALOGING"
      [] s = "scan" -> "SCAN"
      [] s = "orders" -> "ORDERS"
      [] s = "customers" -> "CUSTOMERS"
      [] s = "reports" -> "REPORTS"
      [] s = "inventory-alerts" -> "INVENTORY-ALERTS"
      [] s = "ai-assistant" -> "AI-ASSISTANT"
      [] s = "ai-assistant-custom-agents" -> "AI-ASSISTANT-CUSTOM-AGENTS"
      [] s = "ai-assistant-settings" -> "AI-ASSISTANT-SETTINGS"
      [] s = "settings" -> "SETTINGS"
      [] s = "no-such-page" -> "NO-SUCH-PAGE"
      [] s = "accessibility_start" -> "ACCESSIBILITY_START"
      [] s = "accessibility_complete" -> "ACCESSIBILITY_COMPLETE"
      [] s = "navigation_start" -> "NAVIGATION_START"
      [] s = "navigation_complete" -> "NAVIGATION_COMPLETE"
      [] s = "functionality_start" -> "FUNCTIONALITY_START"
      [] s = "functionality_complete" -> "FUNCTIONALITY_COMPLETE"
      [] s = "error_handling_start" -> "ERROR_HANDLING_START"
      [] s = "error_handling_complete" -> "ERROR_HANDLING_COMPLETE"
      [] OTHER -> s

\* f"CP_{counter:03d}_{page}_{suffix}": the three parts of the text.  The
\* zero-padded number is at least three digits wide and never truncated.
CheckpointId(counter, page, suffix) ==
    [counter |-> counter, page |-> Upper(page), suffix |-> suffix]

----------------------------------------------------------------------------
(* Python list and number helpers *)

\* x in lst
In(x, lst) == \E i \in 1..Len(lst) : lst[i] = x

\* lst.remove(x): drops the first occurrence
RECURSIVE Remove(_, _)
Remove(lst, x) ==
    IF lst = <<>> THEN <<>>
    ELSE IF Head(lst) = x THEN Tail(lst)
    ELSE <<Head(lst)>> \o Remove(Tail(lst), x)

\* number of occurrences of x in lst
RECURSIVE Count(_, _)
Count(lst, x) ==
    IF lst = <<>> THEN 0
    ELSE (IF Head(lst) = x THEN 1 ELSE 0) + Count(Tail(lst), x)

\* round(n * 100 / d, 1), as a number of tenths (round half to even)
RoundTenths(n, d) ==
    LET q == (n * 1000) \div d
        r == (n * 1000) % d
    IN  IF 2 * r > d THEN q + 1
        ELSE IF 2 * r < d THEN q
        ELSE IF q % 2 = 0 THEN q ELSE q + 1

Max(a, b) == IF a >= b THEN a ELSE b

\* The element of a one-element set
The(S) == CHOOSE x \in S : TRUE

----------------------------------------------------------------------------
(* The files of the audit directory as one value *)

Disk == [session_file |-> session_file, counter_file |-> counter_file,
         checkpoints |-> checkpoints, pages_dir |-> pages_dir, issued |-> issued]

\* json.load(open(session_file))
Load(w) == w.session_file[1]

\* json.dump(session, open(session_file, "w"))
Save(w, session) == [w EXCEPT !.session_file = <<session>>]

----------------------------------------------------------------------------
(* CheckpointManager *)

\* The counter is written back unchanged.
get_next_checkpoint_counter_NoIncrement(w) ==
    LET counter == IF w.counter_file # <<>> THEN w.counter_file[1] ELSE 1
    IN  [w |-> [w EXCEPT !.counter_file = <<counter>>], ret |-> counter]

get_next_checkpoint_counter(w) ==
    LET counter == IF w.counter_file # <<>> THEN w.counter_file[1] ELSE 1
    IN  [w |-> [w EXCEPT !.counter_file = <<counter + 1>>], ret |-> counter]

\* The page is appended to pages_completed without the membership test.
ProgressOnSuccess_NoMembershipTest(progress, page_name) ==
    LET completed == Append(progress.pages_completed, page_name)
        remaining == IF In(page_name, progress.pages_remaining)
                     THEN Remove(progress.pages_remaining, page_name)
                     ELSE progress.pages_remaining
    IN  [progress EXCEPT
            !.pages_completed = completed,
            !.pages_remaining = remaining,
            !.completion_percentage = RoundTenths(Len(completed), progress.total_pages)]

\* The "if status == SUCCESS" block of create_checkpoint
ProgressOnSuccess(progress, page_name) ==
    LET completed == IF ~In(page_name, progress.pages_completed)
                     THEN Append(progress.pages_completed, page_name)
                     ELSE progress.pages_completed
        remaining == IF In(page_name, progress.pages_remaining)
                     THEN Remove(progress.pages_remaining, page_name)
                     ELSE progress.pages_remaining
    IN  [progress EXCEPT
            !.pages_completed = completed,
            !.pages_remaining = remaining,
            !.completion_percentage = RoundTenths(Len(completed), progress.total_pages)]

\* The snapshot is taken before the progress block is updated.
create_checkpoint_SnapshotBeforeProgress(w, page_name, status) ==
    LET g == get_next_checkpoint_counter(w)
        checkpoint_id == CheckpointId(g.ret, page_name, "COMPLETE")
        session == Load(g.w)
        checkpoint_info == [checkpoint_id |-> checkpoint_id, type |-> "MACRO",
                            page |-> page_name, phase |-> "complete", status |-> status]
        s1 == [session EXCEPT
                  !.last_checkpoint = <<checkpoint_info>>,
                  !.checkpoint_history = Append(@, checkpoint_info)]
        s2 == IF status = "SUCCESS"
              THEN [s1 EXCEPT !.progress = ProgressOnSuccess(@, page_name)]
              ELSE s1
        saved == Save(g.w, s2)
    IN  [w |-> [saved EXCEPT
                  !.checkpoints = { c \in @ : c.id # checkpoint_id }
                                    \cup {[id |-> checkpoint_id, doc |-> s1]},
                  !.issued = Append(@, checkpoint_id)],
         ret |-> checkpoint_id]

\* A checkpoint that is not SUCCESS puts the page back among the remaining ones.
create_checkpoint_FailedReopensPage(w, page_name, status) ==
    LET g == get_next_checkpoint_counter(w)
        checkpoint_id == CheckpointId(g.ret, page_name, "COMPLETE")
        session == Load(g.w)
        checkpoint_info == [checkpoint_id |-> checkpoint_id, type |-> "MACRO",
                            page |-> page_name, phase |-> "complete", status |-> status]
        s1 == [session EXCEPT
                  !.last_checkpoint = <<checkpoint_info>>,
                  !.checkpoint_history = Append(@, checkpoint_info)]
        s2 == IF status = "SUCCESS"
              THEN [s1 EXCEPT !.progress = ProgressOnSuccess(@, page_name)]
              ELSE IF In(page_name, s1.progress.pages_completed)
              THEN [s1 EXCEPT
                      !.progress.pages_completed = Remove(@, page_name),
                      !.progress.pages_remaining = Append(@, page_name),
                      !.progress.completion_percentage =
                          RoundTenths(Len(s1.progress.pages_completed) - 1,
                                      s1.progress.total_pages)]
              ELSE s1
        saved == Save(g.w, s2)
    IN  [w |-> [saved EXCEPT
                  !.checkpoints = { c \in @ : c.id # checkpoint_id }
                                    \cup {[id |-> checkpoint_id, doc |-> s2]},
                  !.issued = Append(@, checkpoint_id)],
         ret |-> checkpoint_id]

create_checkpoint(w, page_name, status) ==
    LET g == get_next_checkpoint_counter(w)
        checkpoint_id == CheckpointId(g.ret, page_name, "COMPLETE")
        session == Load(g.w)
        checkpoint_info == [checkpoint_id |-> checkpoint_id, type |-> "MACRO",
                            page |-> page_name, phase |-> "complete", status |-> status]
        s1 == [session EXCEPT
                  !.last_checkpoint = <<checkpoint_info>>,
                  !.checkpoint_history = Append(@, checkpoint_info)]
        s2 == IF status = "SUCCESS"
              THEN [s1 EXCEPT !.progress = ProgressOnSuccess(@, page_name)]
              ELSE s1
        saved == Save(g.w, s2)
    IN  [w |-> [saved EXCEPT
                  !.checkpoints = { c \in @ : c.id # checkpoint_id }
                                    \cup {[id |-> checkpoint_id, doc |-> s2]},
                  !.issued = Append(@, checkpoint_id)],
         ret |-> checkpoint_id]

\* The micro record is also stored as last_checkpoint.
create_micro_checkpoint_SetsLastCheckpoint(w, page_name, phase, status) ==
    LET g == get_next_checkpoint_counter(w)
        checkpoint_id == CheckpointId(g.ret, page_name, Upper(phase))
        session == Load(g.w)
        checkpoint_info == [id |-> checkpoint_id, type |-> "MICRO",
                            page |-> page_name, phase |-> phase, status |-> status]
        s1 == [session EXCEPT !.last_checkpoint = <<checkpoint_info>>,
                              !.checkpoint_history = Append(@, checkpoint_info)]
    IN  [w |-> [Save(g.w, s1) EXCEPT !.issued = Append(@, checkpoint_id)],
         ret |-> checkpoint_id]

create_micro_checkpoint(w, page_name, phase, status) ==
    LET g == get_next_checkpoint_counter(w)
        checkpoint_id == CheckpointId(g.ret, page_name, Upper(phase))
        session == Load(g.w)
        checkpoint_info == [id |-> checkpoint_id, type |-> "MICRO",
                            page |-> page_name, phase |-> phase, status |-> status]
        s1 == [session EXCEPT !.checkpoint_history = Append(@, checkpoint_info)]
    IN  [w |-> [Save(g.w, s1) EXCEPT !.issued = Append(@, checkpoint_id)],
         ret |-> checkpoint_id]

\* The session document is written before the counter file.
WritesSoFar_SessionFirst(w, done, n) ==
    [w EXCEPT !.session_file = IF n >= 1 THEN done.session_file ELSE @,
              !.counter_file = IF n >= 2 THEN done.counter_file ELSE @,
              !.issued = IF n >= 1 THEN done.issued ELSE @,
              !.checkpoints = IF n >= 3 THEN done.checkpoints ELSE @]

\* The disk when a checkpoint call that would have left `done` is killed
\* after n of its file writes.  Both methods write the counter file first
\* (in get_next_checkpoint_counter), then the session document;
\* create_checkpoint writes the snapshot file last.  The identifier is built
\* as soon as the counter value is known.
WritesSoFar(w, done, n) ==
    [w EXCEPT !.counter_file = IF n >= 1 THEN done.counter_file ELSE @,
              !.issued = IF n >= 1 THEN done.issued ELSE @,
              !.session_file = IF n >= 2 THEN done.session_file ELSE @,
              !.checkpoints = IF n >= 3 THEN done.checkpoints ELSE @]

----------------------------------------------------------------------------
(* PageTester.update_error_count *)

ErrorLevels == {"critical", "high", "medium", "low"}

\* The severity counter is incremented, total is not.
update_error_count_NoTotal(w, error_level) ==
    LET session == Load(w)
    IN  Save(w, [session EXCEPT !.error_summary[error_level] = @ + 1])

update_error_count(w, error_level) ==
    LET session == Load(w)
    IN  Save(w, [session EXCEPT
                    !.error_summary[error_level] = @ + 1,
                    !.error_summary["total"] = @ + 1])

----------------------------------------------------------------------------
(* InventoryAuditSystem.initialize_session *)

InitCheckpointId == [counter |-> 0, page |-> "", suffix |-> "INIT"]

\* The document initialize_session writes
session_data ==
    [ last_checkpoint |-> <<>>,
      current_operation |-> [page |-> "None", phase |-> "initialization", step |-> "setup"],
      progress |-> [ pages_completed |-> <<>>,
                     pages_in_progress |-> <<>>,
                     pages_remaining |-> Pages,
                     total_pages |-> Len(Pages),
                     completion_percentage |-> 0 ],
      checkpoint_history |-> << [id |-> InitCheckpointId, type |-> "INITIALIZATION",
                                 status |-> "SUCCESS"] >>,
      error_summary |-> [critical |-> 0, high |-> 0, medium |-> 0, low |-> 0, total |-> 0],
      recovery_metadata |-> [ browser_state |-> "initialized", session_storage |-> "clean",
                              network_state |-> "unknown",
                              last_successful_action |-> "session_initialization" ] ]

\* The progress block of an existing session survives the re-initialisation.
initialize_session_KeepProgress(w) ==
    [w EXCEPT !.session_file = IF @ = <<>> THEN <<session_data>>
                               ELSE <<[session_data EXCEPT !.progress = w.session_file[1].progress]>>,
              !.counter_file = <<1>>]

initialize_session(w) ==
    [w EXCEPT !.session_file = <<session_data>>, !.counter_file = <<1>>]

----------------------------------------------------------------------------
(* HTTP responses.  net = TRUE is a requests.RequestException (connection   *)
(* refused, timeout, DNS); otherwise status is the status code, elapsed the *)
(* response time in ms, length len(response.content) and body the set of    *)
(* search terms that occur in response.text.lower().                        *)

Response(status, elapsed, length, body) ==
    [net |-> FALSE, status |-> status, elapsed |-> elapsed, length |-> length, body |-> body]

NetworkError == [net |-> TRUE, status |-> 0, elapsed |-> 0, length |-> 0, body |-> {}]

\* term in page_content ("product" is a substring of "products")
Has(content, term) ==
    \/ term \in content
    \/ term = "product" /\ "products" \in content

\* any(term in page_content for term in terms)
HasAny(content, terms) == \E t \in terms : Has(content, t)

\* page_content.count(term): every term of a modelled body occurs once in it
CountOf(content, terms) == Cardinality({ t \in terms : Has(content, t) })

\* str(e) of a requests.RequestException
ExceptionText == "ConnectionError"

\* One sub-check: the test result and the severity passed to update_error_count
\* ("" when the branch does not call it).
Check(test, status, details, level) ==
    [test |-> test, status |-> status, details |-> details, level |-> level]

\* The test_results list built from a sequence of sub-checks
Results(checks) ==
    [i \in 1..Len(checks) |->
        [test |-> checks[i].test, status |-> checks[i].status, details |-> checks[i].details]]

\* The update_error_count calls of a sequence of sub-checks, in order
RECURSIVE Tally(_, _)
Tally(w, checks) ==
    IF checks = <<>> THEN w
    ELSE The({ Tally(w1, Tail(checks)) :
                 w1 \in { IF Head(checks).level = "" THEN w
                          ELSE update_error_count(w, Head(checks).level) } })

\* any(result["status"] == "FAIL" for result in test_results)
AnyFail(results) == \E i \in 1..Len(results) : results[i].status = "FAIL"

\* pages/<page>_<phase>_results.json is overwritten with the batch
save_test_results(w, page_name, test_phase, test_results) ==
    [w EXCEPT !.pages_dir =
        { f \in @ : ~(f.page = page_name /\ f.test_phase = test_phase) }
        \cup { [page |-> page_name, test_phase |-> test_phase, results |-> test_results] }]

\* The except branch records nothing: no results batch is written.
NetworkFailure_NoBatch(w, page_name, test_phase, error_level) ==
    [w |-> update_error_count(w, error_level), ret |-> FALSE, results |-> <<>>]

\* Every network failure is counted as high, whatever the phase.
NetworkFailure_CountsHigh(w, page_name, test_phase, error_level) ==
    LET test_results == << [test |-> "network", status |-> "FAIL", details |-> ExceptionText] >>
    IN  [w |-> update_error_count(save_test_results(w, page_name, test_phase, test_results),
                                  "high"),
         ret |-> FALSE, results |-> test_results]

\* The except branch of the first three phase functions
NetworkFailure(w, page_name, test_phase, error_level) ==
    LET test_results == << [test |-> "network", status |-> "FAIL", details |-> ExceptionText] >>
    IN  [w |-> update_error_count(save_test_results(w, page_name, test_phase, test_results),
                                  error_level),
         ret |-> FALSE, results |-> test_results]

----------------------------------------------------------------------------
(* PageTester: the four phase functions *)

\* A response time of exactly 3000 ms still passes.
ResponseTimeCheck_InclusiveThreshold(elapsed) ==
    IF elapsed <= 3000 THEN Check("response_time", "PASS", ToString(elapsed) \o "ms", "")
    ELSE IF elapsed < 5000 THEN Check("response_time", "WARN", ToString(elapsed) \o "ms", "medium")
    ELSE Check("response_time", "FAIL", ToString(elapsed) \o "ms", "high")

\* The response-time sub-check of the accessibility phase
ResponseTimeCheck(elapsed) ==
    IF elapsed < 3000 THEN Check("response_time", "PASS", ToString(elapsed) \o "ms", "")
    ELSE IF elapsed < 5000 THEN Check("response_time", "WARN", ToString(elapsed) \o "ms", "medium")
    ELSE Check("response_time", "FAIL", ToString(elapsed) \o "ms", "high")

test_page_accessibility(w, page_name, resp) ==
    IF resp.net
    THEN NetworkFailure(w, page_name, "accessibility", "critical")
    ELSE
      LET c1 == IF resp.status = 200
                THEN Check("http_status", "PASS", ToString(resp.status), "")
                ELSE Check("http_status", "FAIL", ToString(resp.status), "high")
          c2 == ResponseTimeCheck(resp.elapsed)
          bytes == ToString(resp.length) \o "bytes"
          c3 == IF resp.length > 1000 THEN Check("content_length", "PASS", bytes, "")
                ELSE Check("content_length", "WARN", bytes, "low")
          checks == <<c1, c2, c3>>
      IN  [w |-> save_test_results(Tally(w, checks), page_name, "accessibility", Results(checks)),
           ret |-> ~AnyFail(Results(checks)),
           results |-> Results(checks)]

nav_tests == << "nav", "menu", "sidebar", "header", "dashboard", "products" >>

\* The navigation phase passes on any page that answers at all.
test_page_navigation_AlwaysPasses(w, page_name, resp) ==
    IF resp.net
    THEN NetworkFailure(w, page_name, "navigation", "high")
    ELSE
      LET each == [i \in 1..Len(nav_tests) |->
                     IF Has(resp.body, nav_tests[i])
                     THEN Check("nav_" \o nav_tests[i], "PASS", "found", "")
                     ELSE Check("nav_" \o nav_tests[i], "WARN", "missing", "")]
          nav_pass_count == Cardinality({ i \in 1..Len(nav_tests) : Has(resp.body, nav_tests[i]) })
          of6 == ToString(nav_pass_count) \o "/6"
          overall == IF nav_pass_count >= 4 THEN Check("navigation_overall", "PASS", of6, "")
                     ELSE IF nav_pass_count >= 2 THEN Check("navigation_overall", "WARN", of6, "medium")
                     ELSE Check("navigation_overall", "FAIL", of6, "high")
          checks == Append(each, overall)
      IN  [w |-> save_test_results(Tally(w, checks), page_name, "navigation", Results(checks)),
           ret |-> TRUE, results |-> Results(checks)]

test_page_navigation(w, page_name, resp) ==
    IF resp.net
    THEN NetworkFailure(w, page_name, "navigation", "high")
    ELSE
      LET each == [i \in 1..Len(nav_tests) |->
                     IF Has(resp.body, nav_tests[i])
                     THEN Check("nav_" \o nav_tests[i], "PASS", "found", "")
                     ELSE Check("nav_" \o nav_tests[i], "WARN", "missing", "")]
          nav_pass_count == Cardinality({ i \in 1..Len(nav_tests) : Has(resp.body, nav_tests[i]) })
          of6 == ToString(nav_pass_count) \o "/6"
          overall == IF nav_pass_count >= 4 THEN Check("navigation_overall", "PASS", of6, "")
                     ELSE IF nav_pass_count >= 2 THEN Check("navigation_overall", "WARN", of6, "medium")
                     ELSE Check("navigation_overall", "FAIL", of6, "high")
          checks == Append(each, overall)
      IN  [w |-> save_test_results(Tally(w, checks), page_name, "navigation", Results(checks)),
           ret |-> nav_pass_count >= 2, results |-> Results(checks)]

\* "ai-assistant" in page_name, on the names the model passes
IsAiAssistant(page_name) ==
    page_name \in {"ai-assistant", "ai-assistant-custom-agents", "ai-assistant-settings"}

\* A missing page-specific element is reported but not counted.
Specific_NotCounted(test, page_content, terms, status, level) ==
    IF HasAny(page_content, terms) THEN Check(test, "PASS", "found", "")
    ELSE Check(test, status, "missing", "")

\* One page-specific sub-check: PASS when any of the terms is found
Specific(test, page_content, terms, status, level) ==
    IF HasAny(page_content, terms) THEN Check(test, "PASS", "found", "")
    ELSE Check(test, status, "missing", level)

\* The sub-checks test_page_specific_functionality appends
test_page_specific_functionality(page_name, page_content) ==
    IF page_name = "dashboard" THEN
        << Specific("dashboard_cards", page_content, {"card", "widget", "dashboard"}, "WARN", "medium"),
           Specific("dashboard_metrics", page_content, {"total", "count", "metric", "statistic"},
                    "WARN", "medium") >>
    ELSE IF page_name = "products" THEN
        << Specific("products_content", page_content, {"product", "item", "inventory"},
                    "WARN", "medium") >>
    ELSE IF page_name = "scan" THEN
        << Specific("scan_barcode", page_content, {"barcode", "camera", "scan"}, "FAIL", "high") >>
    ELSE IF IsAiAssistant(page_name) THEN
        << Specific("ai_content", page_content, {"ai", "assistant", "agent", "artificial"},
                    "FAIL", "high") >>
    ELSE << >>

ButtonTerms == {"<button", "type=\"button\"", "type=\"submit\""}

test_page_functionality(w, page_name, resp) ==
    IF resp.net
    THEN NetworkFailure(w, page_name, "functionality", "high")
    ELSE
      LET c1 == IF Has(resp.body, "<script") THEN Check("javascript", "PASS", "scripts_found", "")
                ELSE Check("javascript", "WARN", "no_scripts", "low")
          c2 == IF Has(resp.body, "stylesheet") \/ Has(resp.body, "<style")
                THEN Check("css", "PASS", "stylesheets_found", "")
                ELSE Check("css", "FAIL", "no_stylesheets", "medium")
          form_count == CountOf(resp.body, {"<form"})
          c3 == IF form_count > 0 THEN Check("forms", "PASS", ToString(form_count) \o "_forms", "")
                ELSE Check("forms", "INFO", "no_forms", "")
          button_count == CountOf(resp.body, ButtonTerms)
          c4 == IF button_count > 0
                THEN Check("buttons", "PASS", ToString(button_count) \o "_buttons", "")
                ELSE Check("buttons", "WARN", "no_buttons", "low")
          checks == <<c1, c2, c3, c4>> \o test_page_specific_functionality(page_name, resp.body)
      IN  [w |-> save_test_results(Tally(w, checks), page_name, "functionality", Results(checks)),
           ret |-> ~AnyFail(Results(checks)),
           results |-> Results(checks)]

\* A network failure of the main-page request fails the phase.
test_error_handling_FailsOnNetworkError(w, page_name, resp404, resp) ==
    LET c1 == IF resp404.net THEN Check("404_handling", "INFO", "connection_error", "")
              ELSE IF resp404.status = 404 THEN Check("404_handling", "PASS", "proper_404", "")
              ELSE Check("404_handling", "WARN", "status_" \o ToString(resp404.status), "low")
        c2 == IF resp.net THEN Check("error_boundaries", "WARN", ExceptionText, "")
              ELSE IF HasAny(resp.body, {"error", "exception", "boundary"})
              THEN Check("error_boundaries", "INFO", "content_found", "")
              ELSE Check("error_boundaries", "PASS", "no_errors", "")
        checks == <<c1, c2>>
    IN  [w |-> save_test_results(Tally(w, checks), page_name, "error_handling", Results(checks)),
         ret |-> ~resp.net, results |-> Results(checks)]

test_error_handling(w, page_name, resp404, resp) ==
    LET c1 == IF resp404.net THEN Check("404_handling", "INFO", "connection_error", "")
              ELSE IF resp404.status = 404 THEN Check("404_handling", "PASS", "proper_404", "")
              ELSE Check("404_handling", "WARN", "status_" \o ToString(resp404.status), "low")
        c2 == IF resp.net THEN Check("error_boundaries", "WARN", ExceptionText, "")
              ELSE IF HasAny(resp.body, {"error", "exception", "boundary"})
              THEN Check("error_boundaries", "INFO", "content_found", "")
              ELSE Check("error_boundaries", "PASS", "no_errors", "")
        checks == <<c1, c2>>
    IN  [w |-> save_test_results(Tally(w, checks), page_name, "error_handling", Results(checks)),
         ret |-> TRUE, results |-> Results(checks)]

----------------------------------------------------------------------------
(* InventoryAuditSystem.audit_page *)

\* The five responses one page audit receives, one per request
Requests(acc, nav, func, e404, emain) ==
    [acc |-> acc, nav |-> nav, func |-> func, e404 |-> e404, emain |-> emain]

\* A failed navigation phase fails the page as well.
OverallStatus_NavigationCounts(acc, nav, func, err) ==
    IF ~acc \/ ~nav \/ ~func THEN "FAILED" ELSE "SUCCESS"

\* overall_status: set to FAILED in the else branches of phases 1 and 3 only
OverallStatus(acc, nav, func, err) ==
    IF ~acc \/ ~func THEN "FAILED" ELSE "SUCCESS"

\* The status of a phase's *_complete micro checkpoint
CompleteStatus(passed, otherwise) == IF passed THEN "SUCCESS" ELSE otherwise

\* The phase function of each phase, on the response(s) to its request(s)
RunTest(w, page_name, phase, r) ==
    CASE phase = "accessibility" -> test_page_accessibility(w, page_name, r.acc)
      [] phase = "navigation" -> test_page_navigation(w, page_name, r.nav)
      [] phase = "functionality" -> test_page_functionality(w, page_name, r.func)
      [] phase = "error_handling" -> test_error_handling(w, page_name, r.e404, r.emain)

\* The "Update current operation" block of audit_page
StartOperation(w, page_name) ==
    Save(w, [Load(w) EXCEPT !.current_operation =
                [page |-> page_name, phase |-> "starting", step |-> "initialization"]])

\* The phases in the order audit_page runs them
PhaseNames == << "accessibility", "navigation", "functionality", "error_handling" >>

\* pages/<page>_summary.md: the overall status and one line per phase result
\* (phase_results holds PASS or FAIL, and WARN for a failed error-handling phase)
create_page_summary(w, page_name, overall_status, phases) ==
    LET lines == [i \in 1..Len(phases) |->
                    [test |-> PhaseNames[i],
                     status |-> IF phases[i] THEN "PASS"
                                ELSE IF PhaseNames[i] = "error_handling" THEN "WARN" ELSE "FAIL",
                     details |-> ""]]
    IN  save_test_results(w, page_name, "summary",
            << [test |-> "overall_status", status |-> overall_status, details |-> ""] >> \o lines)

\* The navigation_start micro checkpoint is not recorded.
audit_steps_NoNavigationStart ==
    << <<"start", "accessibility">>, <<"test", "accessibility">>, <<"complete", "accessibility">>,
       <<"test", "navigation">>, <<"complete", "navigation">>,
       <<"start", "functionality">>, <<"test", "functionality">>, <<"complete", "functionality">>,
       <<"start", "error_handling">>, <<"test", "error_handling">>, <<"complete", "error_handling">>,
       <<"summary", "complete">>, <<"macro", "complete">> >>

\* The statements of audit_page after the current-operation update, in program
\* order: per phase the start micro checkpoint, the phase function and the
\* complete micro checkpoint; then the page summary and the MACRO checkpoint
audit_steps ==
    << <<"start", "accessibility">>, <<"test", "accessibility">>, <<"complete", "accessibility">>,
       <<"start", "navigation">>, <<"test", "navigation">>, <<"complete", "navigation">>,
       <<"start", "functionality">>, <<"test", "functionality">>, <<"complete", "functionality">>,
       <<"start", "error_handling">>, <<"test", "error_handling">>, <<"complete", "error_handling">>,
       <<"summary", "complete">>, <<"macro", "complete">> >>

\* One statement of audit_page.  a.w is the disk, a.phases the return values
\* of the phase functions so far, a.status overall_status once it is final.
Exec(a, step, page_name, r) ==
    CASE step[1] = "start" ->
           [a EXCEPT !.w = create_micro_checkpoint(a.w, page_name, step[2] \o "_start",
                                                   "IN_PROGRESS").w]
      [] step[1] = "test" ->
           LET t == RunTest(a.w, page_name, step[2], r)
           IN  [a EXCEPT !.w = t.w, !.phases = Append(@, t.ret)]
      [] step[1] = "complete" ->
           [a EXCEPT !.w = create_micro_checkpoint(a.w, page_name, step[2] \o "_complete",
                              CompleteStatus(a.phases[Len(a.phases)],
                                  IF step[2] = "error_handling" THEN "WARNING" ELSE "FAILED")).w]
      [] step[1] = "summary" ->
           LET overall_status == OverallStatus(a.phases[1], a.phases[2], a.phases[3], a.phases[4])
           IN  [a EXCEPT !.w = create_page_summary(a.w, page_name, overall_status, a.phases),
                         !.status = overall_status]
      [] step[1] = "macro" ->
           [a EXCEPT !.w = create_checkpoint(a.w, page_name, a.status).w]

\* The statements of a list, one after the other
RECURSIVE RunSteps(_, _, _, _)
RunSteps(a, steps, page_name, r) ==
    IF steps = <<>> THEN a
    ELSE The({ RunSteps(a1, Tail(steps), page_name, r) :
                 a1 \in { Exec(a, Head(steps), page_name, r) } })

\* The current operation is updated before the page key is looked up.
audit_page_OperationBeforeLookup(w, page_name, r) ==
    IF ~In(page_name, Pages)
    THEN [w |-> StartOperation(w, page_name), ret |-> FALSE, status |-> "", phases |-> <<>>]
    ELSE
      LET a == The({ RunSteps([w |-> s0, phases |-> <<>>, status |-> ""],
                              audit_steps, page_name, r) :
                       s0 \in { StartOperation(w, page_name) } })
      IN  [w |-> a.w, ret |-> a.status = "SUCCESS", status |-> a.status, phases |-> a.phases]

audit_page(w, page_name, r) ==
    IF ~In(page_name, Pages) THEN [w |-> w, ret |-> FALSE, status |-> "", phases |-> <<>>]
    ELSE
      LET a == The({ RunSteps([w |-> s0, phases |-> <<>>, status |-> ""],
                              audit_steps, page_name, r) :
                       s0 \in { StartOperation(w, page_name) } })
      IN  [w |-> a.w, ret |-> a.status = "SUCCESS", status |-> a.status, phases |-> a.phases]

\* audit_page when statement k of audit_steps raises an I/O error (OSError) at
\* its first file operation: the statements before it have run, it has written
\* nothing.  k = 0 is the read of the session document at the top of audit_page.
audit_page_raises(w, page_name, r, k) ==
    IF k = 0 THEN [w |-> w, phases |-> <<>>]
    ELSE
      LET a == The({ RunSteps([w |-> s0, phases |-> <<>>, status |-> ""],
                              SubSeq(audit_steps, 1, k - 1), page_name, r) :
                       s0 \in { StartOperation(w, page_name) } })
      IN  [w |-> a.w, phases |-> a.phases]

\* check_server_status: one GET of the base URL
check_server_status(resp) == ~resp.net /\ resp.status = 200

----------------------------------------------------------------------------
(* InventoryAuditSystem.generate_final_report *)

\* The critical weight is applied to the high count and the other way round.
HealthScore_SwappedWeights(errors) ==
    LET h1 == 100 - errors.critical * 10
        h2 == h1 - errors.high * 25
        h3 == h2 - errors.medium * 5
        h4 == h3 - errors.low * 1
    IN  Max(0, h4)

\* health_score, computed step by step as the code does
HealthScore(errors) ==
    LET h1 == 100 - errors.critical * 25
        h2 == h1 - errors.high * 10
        h3 == h2 - errors.medium * 5
        h4 == h3 - errors.low * 1
    IN  Max(0, h4)

\* summary_data["audit_summary"] of the JSON report
generate_final_report(w) ==
    LET session == Load(w)
        errors == session.error_summary
        health_score == HealthScore(errors)
    IN  [ health_score |-> health_score,
          total_pages |-> session.progress.total_pages,
          completed_pages |-> Len(session.progress.pages_completed),
          completion_percentage |-> session.progress.completion_percentage,
          errors |-> errors,
          status |-> IF health_score >= 75 THEN "GOOD" ELSE "NEEDS_ATTENTION" ]

----------------------------------------------------------------------------
(* Inputs *)

AllTerms == { "nav", "menu", "sidebar", "header", "dashboard", "products",
              "<script", "stylesheet", "<style", "<form", "<button",
              "card", "total", "product", "barcode", "ai" }

\* A healthy page: 200 in 500 ms, 5000 bytes, every searched element present
OkResponse == Response(200, 500, 5000, AllTerms)

\* A broken page: server error, slow, short, two navigation elements, no CSS
DegradedResponse == Response(500, 3500, 800, {"nav", "menu", "<script"})

\* The answer a server gives to a route it does not know
NotFoundResponse == Response(404, 200, 300, {"nav", "error"})

Responses == {OkResponse, DegradedResponse, NetworkError}

\* The same server condition for all five requests
UniformRequestSets == { Requests(x, x, x, x, x) : x \in Responses }

\* The responses to the five requests of one page audit: each of the three
\* deciding phases independently healthy or unreachable, the invalid route
\* answered by a 404 or unreachable; or the server uniformly in one condition
RequestSets ==
    { Requests(a, n, f, e, OkResponse) :
         a \in {OkResponse, NetworkError}, n \in {OkResponse, NetworkError},
         f \in {OkResponse, NetworkError}, e \in {NotFoundResponse, NetworkError} }
    \cup UniformRequestSets

\* All five requests of a page audit answered by a healthy server
HealthyRequests == Requests(OkResponse, OkResponse, OkResponse, NotFoundResponse, OkResponse)

\* The statements of audit_page at which an I/O error is raised: the read of
\* the session document at its top (0), the first micro checkpoint (1), the
\* first phase function (2), the page summary and the MACRO checkpoint
FaultPoints == {0, 1, 2, Len(audit_steps) - 1, Len(audit_steps)}

Statuses == {"SUCCESS", "FAILED"}

----------------------------------------------------------------------------
(* State *)

\* attempted: the pages the running full audit has called audit_page on so far
Idle == [pc |-> "idle", idx |-> 0, attempted |-> <<>>]

Call(op, page, status, ret, phases) ==
    [op |-> op, page |-> page, status |-> status, ret |-> ret, phases |-> phases]

\* The audit directory before the tool ever ran
Init ==
    /\ session_file = <<>>
    /\ counter_file = <<>>
    /\ checkpoints = {}
    /\ pages_dir = {}
    /\ reports = <<>>
    /\ issued = <<>>
    /\ run = Idle
    /\ calls = 0
    /\ lastCall = Call("start", "", "", "", <<>>)

\* Write the files of w back
Commit(w) ==
    /\ session_file' = w.session_file
    /\ counter_file' = w.counter_file
    /\ checkpoints' = w.checkpoints
    /\ pages_dir' = w.pages_dir
    /\ issued' = w.issued

\* The session is initialised whether or not one exists.
AutoInit_Always(w) == initialize_session(w)

\* main(): "Initialize if no session exists"
AutoInit(w) == IF w.session_file = <<>> THEN initialize_session(w) ELSE w

BoolText(b) == IF b THEN "True" ELSE "False"

----------------------------------------------------------------------------
(* The commands of main() *)

\* --init
CmdInit ==
    /\ run = Idle
    /\ Commit(initialize_session(Disk))
    /\ lastCall' = Call("initialize_session", "", "", "session_id", <<>>)
    /\ UNCHANGED <<reports, run, calls>>

\* --audit-page <key>
CmdAuditPage ==
    /\ run = Idle
    /\ Len(issued) + 9 <= MaxIssued
    /\ \E page_name \in PageNames, r \in RequestSets :
          \E a \in {audit_page(AutoInit(Disk), page_name, r)} :
              /\ Commit(a.w)
              /\ lastCall' = Call("audit_page", page_name, a.status, BoolText(a.ret), a.phases)
    /\ UNCHANGED <<reports, run, calls>>

\* --full-audit, up to the server check of full_audit.  The bounds of the model
\* apply where the command starts: a loop that has started is never cut short.
CmdFullAudit ==
    /\ run = Idle
    /\ Len(issued) + 9 <= MaxIssued
    /\ Len(reports) < MaxReports
    /\ \E resp \in Responses :
          /\ Commit(AutoInit(Disk))
          /\ IF check_server_status(resp)
             THEN /\ run' = [pc |-> "full_audit", idx |-> 1, attempted |-> <<>>]
                  /\ lastCall' = Call("full_audit_start", "", "", "", <<>>)
             ELSE /\ run' = Idle
                  /\ lastCall' = Call("full_audit", "", "", "server_down", <<>>)
    /\ UNCHANGED <<reports, calls>>

\* One iteration of full_audit's loop over self.pages.keys(): audit_page returns
FullAuditPage ==
    /\ run.pc = "full_audit"
    /\ run.idx <= Len(Pages)
    /\ \E r \in UniformRequestSets :
          \E a \in {audit_page(Disk, Pages[run.idx], r)} :
              /\ Commit(a.w)
              /\ lastCall' = Call("audit_page", Pages[run.idx], a.status, BoolText(a.ret), a.phases)
    /\ run' = [run EXCEPT !.idx = @ + 1, !.attempted = Append(@, Pages[run.idx])]
    /\ UNCHANGED <<reports, calls>>

\* The exception is not caught: the run ends with the failing page.
FullAuditPageRaises_Aborts ==
    /\ run.pc = "full_audit"
    /\ run.idx <= Len(Pages)
    /\ \E k \in FaultPoints :
          \E a \in {audit_page_raises(Disk, Pages[run.idx], HealthyRequests, k)} :
              /\ Commit(a.w)
              /\ lastCall' = Call("audit_page", Pages[run.idx], "", "OSError", a.phases)
    /\ run' = Idle
    /\ UNCHANGED <<reports, calls>>

\* One iteration of the loop in which audit_page raises an I/O error: the
\* "except Exception" of full_audit logs it and the loop goes on
FullAuditPageRaises ==
    /\ run.pc = "full_audit"
    /\ run.idx <= Len(Pages)
    /\ \E k \in FaultPoints :
          \E a \in {audit_page_raises(Disk, Pages[run.idx], HealthyRequests, k)} :
              /\ Commit(a.w)
              /\ lastCall' = Call("audit_page", Pages[run.idx], "", "OSError", a.phases)
    /\ run' = [run EXCEPT !.idx = @ + 1, !.attempted = Append(@, Pages[run.idx])]
    /\ UNCHANGED <<reports, calls>>

\* After the loop: generate_final_report, and full_audit returns
FullAuditReport ==
    /\ run.pc = "full_audit"
    /\ run.idx > Len(Pages)
    /\ reports' = Append(reports, generate_final_report(Disk))
    /\ run' = Idle
    /\ lastCall' = Call("full_audit", "", "", "completed", run.attempted)
    /\ UNCHANGED <<session_file, counter_file, checkpoints, pages_dir, issued, calls>>

\* --status initialises a missing session like the audit commands do.
CmdStatus_CreatesSession ==
    /\ run = Idle
    /\ Commit(AutoInit(Disk))
    /\ lastCall' = Call("status", "", "",
                        IF session_file # <<>> THEN "status_shown" ELSE "no_active_session", <<>>)
    /\ UNCHANGED <<reports, run, calls>>

\* --status
CmdStatus ==
    /\ run = Idle
    /\ lastCall' = Call("status", "", "",
                        IF session_file # <<>> THEN "status_shown" ELSE "no_active_session", <<>>)
    /\ UNCHANGED <<session_file, counter_file, checkpoints, pages_dir, reports, issued, run, calls>>

\* --report; open(session_file) raises when there is no session
CmdReport ==
    /\ run = Idle
    /\ IF session_file = <<>>
       THEN /\ lastCall' = Call("generate_final_report", "", "", "FileNotFoundError", <<>>)
            /\ UNCHANGED reports
       ELSE /\ Len(reports) < MaxReports
            /\ reports' = Append(reports, generate_final_report(Disk))
            /\ lastCall' = Call("generate_final_report", "", "", "None", <<>>)
    /\ UNCHANGED <<session_file, counter_file, checkpoints, pages_dir, issued, run, calls>>

\* The process is killed and started again: what it held in memory is gone
Restart ==
    /\ run' = Idle
    /\ lastCall' = Call("restart", "", "", "", <<>>)
    /\ UNCHANGED <<session_file, counter_file, checkpoints, pages_dir, reports, issued, calls>>

Next ==
    \/ CmdInit
    \/ CmdAuditPage
    \/ CmdFullAudit
    \/ FullAuditPage
    \/ FullAuditReport
    \/ CmdStatus
    \/ CmdReport
    \/ Restart

Spec == Init /\ [][Next]_vars

----------------------------------------------------------------------------
(* The methods called directly, on an initialised audit directory *)

\* The audit directory right after initialize_session
InitSession ==
    /\ session_file = <<session_data>>
    /\ counter_file = <<1>>
    /\ checkpoints = {}
    /\ pages_dir = {}
    /\ reports = <<>>
    /\ issued = <<>>
    /\ run = Idle
    /\ calls = 0
    /\ lastCall = Call("initialize_session", "", "", "session_id", <<>>)

ApiInitializeSession ==
    /\ calls < MaxCalls
    /\ Commit(initialize_session(Disk))
    /\ calls' = calls + 1
    /\ lastCall' = Call("initialize_session", "", "", "session_id", <<>>)
    /\ UNCHANGED <<reports, run>>

ApiCreateCheckpoint ==
    /\ calls < MaxCalls
    /\ \E page_name \in PageNames, status \in Statuses :
          /\ Commit(create_checkpoint(Disk, page_name, status).w)
          /\ lastCall' = Call("create_checkpoint", page_name, status, "checkpoint_id", <<>>)
    /\ calls' = calls + 1
    /\ UNCHANGED <<reports, run>>

ApiCreateMicroCheckpoint ==
    /\ calls < MaxCalls
    /\ \E page_name \in PageNames :
          /\ Commit(create_micro_checkpoint(Disk, page_name, "accessibility_start", "IN_PROGRESS").w)
          /\ lastCall' = Call("create_micro_checkpoint", page_name, "IN_PROGRESS", "checkpoint_id", <<>>)
    /\ calls' = calls + 1
    /\ UNCHANGED <<reports, run>>

ApiUpdateErrorCount ==
    /\ calls < MaxCalls
    /\ \E error_level \in ErrorLevels :
          /\ Commit(update_error_count(Disk, error_level))
          /\ lastCall' = Call("update_error_count", "", error_level, "None", <<>>)
    /\ calls' = calls + 1
    /\ UNCHANGED <<reports, run>>

ApiAuditPage ==
    /\ calls < MaxCalls
    /\ Len(issued) + 9 <= MaxIssued
    /\ \E page_name \in PageNames, r \in UniformRequestSets :
          \E a \in {audit_page(Disk, page_name, r)} :
              /\ Commit(a.w)
              /\ lastCall' = Call("audit_page", page_name, a.status, BoolText(a.ret), a.phases)
    /\ calls' = calls + 1
    /\ UNCHANGED <<reports, run>>

NextApi ==
    \/ ApiInitializeSession
    \/ ApiCreateCheckpoint
    \/ ApiCreateMicroCheckpoint
    \/ ApiUpdateErrorCount
    \/ ApiAuditPage

SpecApi == InitSession /\ [][NextApi]_vars

\* Checkpoint creations and restarts only: nothing resets the session
NextCheckpoints ==
    \/ ApiCreateCheckpoint
    \/ ApiCreateMicroCheckpoint
    \/ Restart

SpecCheckpoints == InitSession /\ [][NextCheckpoints]_vars

\* A session whose error tally is any combination of counts up to MaxTally per
\* severity (total is their sum, as update_error_count keeps it)
InitHealth ==
    /\ \E c \in 0..MaxTally, h \in 0..MaxTally, m \in 0..MaxTally, l \in 0..MaxTally :
          session_file = << [session_data EXCEPT !.error_summary =
                               [critical |-> c, high |-> h, medium |-> m, low |-> l,
                                total |-> c + h + m + l]] >>
    /\ counter_file = <<1>>
    /\ checkpoints = {}
    /\ pages_dir = {}
    /\ reports = <<>>
    /\ issued = <<>>
    /\ run = Idle
    /\ calls = 0
    /\ lastCall = Call("update_error_count", "", "", "None", <<>>)

\* --report on such a session
NextHealth == CmdReport

SpecHealth == InitHealth /\ [][NextHealth]_vars

----------------------------------------------------------------------------
(* The four phase functions called directly, on sessions with and without   *)
(* counted errors                                                           *)

\* Responses around the thresholds of the accessibility sub-checks
AccessResponses ==
    { Response(status, elapsed, length, AllTerms) :
         status \in {200, 404, 500},
         elapsed \in {500, 2999, 3000, 4999, 5000},
         length \in {0, 1000, 1001, 5000} }
    \cup {NetworkError}

\* Healthy responses whose body holds any subset of the six navigation markers
NavigationResponses ==
    { Response(200, 500, 5000, body) : body \in SUBSET Range(nav_tests) } \cup {NetworkError}

\* Healthy responses whose body holds any subset of these searched terms
FunctionalityResponses ==
    { Response(200, 500, 5000, body) :
         body \in SUBSET {"<script", "stylesheet", "<style", "card", "total", "product"} }
    \cup {NetworkError}

\* Answers to the invalid route: 404, another status, or no connection
InvalidRouteResponses == {NotFoundResponse, OkResponse, DegradedResponse, NetworkError}

\* Answers to the main page: without and with the word "error", or no connection
MainPageResponses == {OkResponse, NotFoundResponse, NetworkError}

\* Error tallies a session can hold when a phase function is called
StartTallies ==
    { [critical |-> 0, high |-> 0, medium |-> 0, low |-> 0, total |-> 0],
      [critical |-> 1, high |-> 2, medium |-> 0, low |-> 3, total |-> 6] }

InitPhases ==
    /\ \E tally \in StartTallies :
          session_file = << [session_data EXCEPT !.error_summary = tally] >>
    /\ counter_file = <<1>>
    /\ checkpoints = {}
    /\ pages_dir = {}
    /\ reports = <<>>
    /\ issued = <<>>
    /\ run = Idle
    /\ calls = 0
    /\ lastCall = Call("update_error_count", "", "", "None", <<>>)

\* The call of a phase function returned t
PhaseCall(op, page_name, t) ==
    /\ Commit(t.w)
    /\ lastCall' = Call(op, page_name, "", BoolText(t.ret), <<>>)
    /\ calls' = calls + 1
    /\ UNCHANGED <<reports, run>>

ApiTestAccessibility ==
    /\ calls < MaxPhaseCalls
    /\ \E resp \in AccessResponses :
           \E t \in {test_page_accessibility(Disk, Pages[1], resp)} :
               PhaseCall("test_page_accessibility", Pages[1], t)

ApiTestNavigation ==
    /\ calls < MaxPhaseCalls
    /\ \E resp \in NavigationResponses :
           \E t \in {test_page_navigation(Disk, Pages[1], resp)} :
               PhaseCall("test_page_navigation", Pages[1], t)

ApiTestFunctionality ==
    /\ calls < MaxPhaseCalls
    /\ \E page_name \in PageSet, resp \in FunctionalityResponses :
           \E t \in {test_page_functionality(Disk, page_name, resp)} :
               PhaseCall("test_page_functionality", page_name, t)

ApiTestErrorHandling ==
    /\ calls < MaxPhaseCalls
    /\ \E resp404 \in InvalidRouteResponses, resp \in MainPageResponses :
           \E t \in {test_error_handling(Disk, Pages[1], resp404, resp)} :
               PhaseCall("test_error_handling", Pages[1], t)

NextPhases ==
    \/ ApiTestAccessibility
    \/ ApiTestNavigation
    \/ ApiTestFunctionality
    \/ ApiTestErrorHandling

SpecPhases == InitPhases /\ [][NextPhases]_vars

----------------------------------------------------------------------------
(* Checkpoint calls during which the process can be killed *)

\* The process dies inside create_checkpoint, between two file operations:
\* before the counter is written, before the session document is written, or
\* before the snapshot is written
CrashInCheckpoint ==
    /\ calls < MaxCalls
    /\ \E page_name \in PageSet, status \in Statuses, n \in 0..2 :
          Commit(WritesSoFar(Disk, create_checkpoint(Disk, page_name, status).w, n))
    /\ lastCall' = Call("create_checkpoint", "", "", "killed", <<>>)
    /\ calls' = calls + 1
    /\ run' = Idle
    /\ UNCHANGED reports

\* The process dies inside create_micro_checkpoint: before the counter is
\* written or before the session document is written
CrashInMicroCheckpoint ==
    /\ calls < MaxCalls
    /\ \E page_name \in PageSet, n \in 0..1 :
          Commit(WritesSoFar(Disk, create_micro_checkpoint(Disk, page_name, "accessibility_start",
                                                           "IN_PROGRESS").w, n))
    /\ lastCall' = Call("create_micro_checkpoint", "", "", "killed", <<>>)
    /\ calls' = calls + 1
    /\ run' = Idle
    /\ UNCHANGED reports

NextCrash ==
    \/ ApiCreateCheckpoint
    \/ ApiCreateMicroCheckpoint
    \/ CrashInCheckpoint
    \/ CrashInMicroCheckpoint

SpecCrash == InitSession /\ [][NextCrash]_vars

\* Audits on a disk whose file operations can fail.  The loop of full_audit is
\* sequential code and every request has a timeout, so a started iteration
\* ends, by returning or by raising, and the report follows the last one.
NextFullAudit ==
    \/ CmdFullAudit
    \/ FullAuditPage
    \/ FullAuditPageRaises
    \/ FullAuditReport

SpecFullAudit ==
    /\ InitSession
    /\ [][NextFullAudit]_vars
    /\ WF_vars(FullAuditPageRaises \/ FullAuditPage \/ FullAuditReport)

----------------------------------------------------------------------------
(* Two invocations of the tool on the same audit directory.  Each process   *)
(* runs its calls one file operation at a time (one "with open" block, the  *)
(* exists() test of the counter file taken together with its read); the     *)
(* operations of the two processes interleave freely: the code takes no     *)
(* lock.                                                                    *)

Processes == {"A", "B"}

\* The local variables of a process: the call it is in (or made last), the
\* counter value and the session document it has read, the identifier it built
ProcIdle == [pc |-> "idle", op |-> "", page |-> "", arg |-> "",
             counter |-> 0, session |-> <<>>, ret |-> <<>>]

\* The phase the micro checkpoints of this specification are recorded for
MicroPhase == "accessibility_start"

\* Each invocation audits one page (--audit-page): process A the first page of
\* the registry, process B the last
PageOf(p) == IF p = "A" THEN Pages[1] ELSE Pages[Len(Pages)]

\* The severities the sub-checks of the first phase count: an unreachable
\* server and a short page
ConcurrentErrorLevels == {"critical", "low"}

\* checkpoint_id as create_checkpoint and create_micro_checkpoint build it from
\* the counter value they obtained
Identifier(local) ==
    CheckpointId(local.counter, local.page,
                 IF local.op = "create_checkpoint" THEN "COMPLETE" ELSE Upper(MicroPhase))

\* The session document is read again right before it is written.
View_RereadsSession(w, local) ==
    [w EXCEPT !.counter_file = <<local.counter>>]

\* The files as the process has read them: the counter value and the session
\* document are the ones in its local variables, whatever the files hold now
View(w, local) ==
    [w EXCEPT !.counter_file = <<local.counter>>, !.session_file = local.session]

\* What the call computes from the values it read
Outcome(w, local) ==
    CASE local.op = "create_checkpoint" ->
           create_checkpoint(View(w, local), local.page, local.arg).w
      [] local.op = "create_micro_checkpoint" ->
           create_micro_checkpoint(View(w, local), local.page, MicroPhase, local.arg).w
      [] local.op = "update_error_count" ->
           update_error_count(View(w, local), local.arg)

\* Two idle processes, on the audit directory right after initialize_session
InitConcurrent ==
    /\ session_file = <<session_data>>
    /\ counter_file = <<1>>
    /\ checkpoints = {}
    /\ pages_dir = {}
    /\ reports = <<>>
    /\ issued = <<>>
    /\ run = [p \in Processes |-> ProcIdle]
    /\ calls = 0
    /\ lastCall = Call("initialize_session", "", "", "session_id", <<>>)

\* The call of process p has returned
Returned(p, ret) ==
    lastCall' = Call(run[p].op, run[p].page, run[p].arg, ret, <<>>)

\* A process calls create_checkpoint or create_micro_checkpoint: the read of
\* the counter file in get_next_checkpoint_counter
ProcReadCounter(p) ==
    /\ run[p].pc = "idle"
    /\ calls < MaxConcurrentCalls
    /\ \E c \in { <<"create_checkpoint", "SUCCESS">>, <<"create_micro_checkpoint", "IN_PROGRESS">> } :
          run' = [run EXCEPT ![p] =
                     [pc |-> "write_counter", op |-> c[1], page |-> PageOf(p), arg |-> c[2],
                      counter |-> get_next_checkpoint_counter(Disk).ret,
                      session |-> <<>>, ret |-> <<>>]]
    /\ calls' = calls + 1
    /\ UNCHANGED <<session_file, counter_file, checkpoints, pages_dir, reports, issued, lastCall>>

\* The write of counter + 1; get_next_checkpoint_counter returns and the
\* identifier is built
ProcWriteCounter(p) ==
    /\ run[p].pc = "write_counter"
    /\ counter_file' = get_next_checkpoint_counter(View(Disk, run[p])).w.counter_file
    /\ issued' = Append(issued, Identifier(run[p]))
    /\ run' = [run EXCEPT ![p].pc = "load", ![p].ret = <<Identifier(run[p])>>]
    /\ UNCHANGED <<session_file, checkpoints, pages_dir, reports, calls, lastCall>>

\* json.load of the session document in a checkpoint method
ProcLoadSession(p) ==
    /\ run[p].pc = "load"
    /\ run' = [run EXCEPT ![p].pc = "save", ![p].session = <<Load(Disk)>>]
    /\ UNCHANGED <<session_file, counter_file, checkpoints, pages_dir, reports, issued,
                   calls, lastCall>>

\* A process calls update_error_count: json.load of the session document
ProcLoadForErrorCount(p) ==
    /\ run[p].pc = "idle"
    /\ calls < MaxConcurrentCalls
    /\ \E error_level \in ConcurrentErrorLevels :
          run' = [run EXCEPT ![p] =
                     [pc |-> "save", op |-> "update_error_count", page |-> "",
                      arg |-> error_level, counter |-> 0,
                      session |-> <<Load(Disk)>>, ret |-> <<>>]]
    /\ calls' = calls + 1
    /\ UNCHANGED <<session_file, counter_file, checkpoints, pages_dir, reports, issued, lastCall>>

\* json.dump of the whole document the process holds; create_micro_checkpoint
\* and update_error_count return after it
ProcSaveSession(p) ==
    /\ run[p].pc = "save"
    /\ session_file' = Outcome(Disk, run[p]).session_file
    /\ IF run[p].op = "create_checkpoint"
       THEN /\ run' = [run EXCEPT ![p].pc = "snapshot"]
            /\ UNCHANGED lastCall
       ELSE /\ run' = [run EXCEPT ![p].pc = "idle"]
            /\ Returned(p, IF run[p].op = "update_error_count" THEN "None" ELSE "checkpoint_id")
    /\ UNCHANGED <<counter_file, checkpoints, pages_dir, reports, issued, calls>>

\* json.dump of the same document to the snapshot file; create_checkpoint returns
ProcWriteSnapshot(p) ==
    /\ run[p].pc = "snapshot"
    /\ checkpoints' = Outcome(Disk, run[p]).checkpoints
    /\ run' = [run EXCEPT ![p].pc = "idle"]
    /\ Returned(p, "checkpoint_id")
    /\ UNCHANGED <<session_file, counter_file, pages_dir, reports, issued, calls>>

NextConcurrent ==
    \E p \in Processes :
        \/ ProcReadCounter(p)
        \/ ProcWriteCounter(p)
        \/ ProcLoadSession(p)
        \/ ProcLoadForErrorCount(p)
        \/ ProcSaveSession(p)
        \/ ProcWriteSnapshot(p)

SpecConcurrent == InitConcurrent /\ [][NextConcurrent]_vars

----------------------------------------------------------------------------
(* Properties *)

\* The counter part of every identifier built so far, in order
IssuedCounters == [i \in 1..Len(issued) |-> issued[i].counter]

StrictlyIncreasing(seq) == \A i, j \in 1..Len(seq) : i < j => seq[i] < seq[j]

NoDuplicates(seq) == \A i, j \in 1..Len(seq) : i # j => seq[i] # seq[j]

\* The session document, or the one initialize_session would write if none exists
SessionOr(file) == IF file = <<>> THEN session_data ELSE file[1]

\* The step just taken is a page audit of a registry page
AuditStep == lastCall'.op = "audit_page" /\ lastCall'.page \in PageSet /\ issued' # issued

\* C1: in any sequence of create_checkpoint and create_micro_checkpoint calls
\* with restarts in between, every counter value handed out is greater than
\* every earlier one, so no two checkpoint records share a counter number; the
\* counter file stays above all of them.
C1_CounterStrictlyIncreasing ==
    /\ StrictlyIncreasing(IssuedCounters)
    /\ \A i \in 1..Len(issued) : counter_file # <<>> /\ issued[i].counter < counter_file[1]
    /\ LET h == session_file[1].checkpoint_history
       IN  \A i, j \in 1..Len(h) :
              i < j => (IF h[i].type = "MACRO" THEN h[i].checkpoint_id.counter ELSE h[i].id.counter)
                        < (IF h[j].type = "MACRO" THEN h[j].checkpoint_id.counter ELSE h[j].id.counter)

\* C1 witness: macro and micro checkpoints were created, the process was
\* restarted, and more calls can follow.
C1_Witness ==
    /\ lastCall.op = "restart"
    /\ calls < MaxCalls
    /\ \E i, j \in 1..Len(issued) : issued[i].suffix = "COMPLETE" /\ issued[j].suffix # "COMPLETE"

\* C2 (as claimed): whenever a session exists, pages_completed and
\* pages_remaining are disjoint and their union is the registry key set.
C2_ProgressPartitionsRegistry ==
    session_file # <<>> =>
        LET pr == session_file[1].progress
        IN  /\ Range(pr.pages_completed) \cap Range(pr.pages_remaining) = {}
            /\ Range(pr.pages_completed) \cup Range(pr.pages_remaining) = PageSet

\* C3 (as claimed): the counter values handed out stay strictly increasing and
\* no checkpoint identifier is issued twice, also across a reset of the session.
C3_MonotonicAcrossReset ==
    /\ StrictlyIncreasing(IssuedCounters)
    /\ NoDuplicates(issued)

\* C4: right after initialize_session, pages_remaining is the full registry key
\* list, pages_completed is empty and completion_percentage is 0.0.
C4_InitializeResetsProgress ==
    lastCall.op = "initialize_session" =>
        /\ session_file # <<>>
        /\ session_file[1].progress.pages_remaining = Pages
        /\ session_file[1].progress.pages_completed = <<>>
        /\ session_file[1].progress.completion_percentage = 0

\* C4 witness: initialize_session has just run over a session that had a
\* completed page and counted errors (its snapshot is still on disk).
C4_Witness ==
    /\ lastCall.op = "initialize_session"
    /\ \E c \in checkpoints : /\ c.doc.progress.pages_completed # <<>>
                              /\ c.doc.error_summary.total > 0

\* C5: create_checkpoint(page, SUCCESS) leaves the page exactly once in
\* pages_completed and out of pages_remaining, and a second such call right
\* after the first leaves the whole progress block as the first left it.
C5_SuccessCheckpointIdempotent ==
    [][ (calls' = calls + 1 /\ lastCall'.op = "create_checkpoint" /\ lastCall'.status = "SUCCESS")
        => LET p == lastCall'.page
               after == session_file'[1].progress
           IN  /\ Count(after.pages_completed, p) = 1
               /\ ~In(p, after.pages_remaining)
               /\ (lastCall.op = "create_checkpoint" /\ lastCall.status = "SUCCESS" /\ lastCall.page = p)
                    => /\ after.pages_completed = session_file[1].progress.pages_completed
                       /\ after.pages_remaining = session_file[1].progress.pages_remaining
                       /\ after.completion_percentage = session_file[1].progress.completion_percentage
      ]_vars

\* C5 witness: the same registry page has two SUCCESS macro records in a row.
C5_Witness ==
    /\ lastCall.op = "create_checkpoint"
    /\ lastCall.page \in PageSet
    /\ LET h == session_file[1].checkpoint_history
       IN  /\ Len(h) >= 3
           /\ \A k \in {Len(h) - 1, Len(h)} :
                 h[k].type = "MACRO" /\ h[k].status = "SUCCESS" /\ h[k].page = lastCall.page

\* The (type, phase) pairs audit_page records for one page, in order
AuditRecordOrder ==
    << <<"MICRO", "accessibility_start">>, <<"MICRO", "accessibility_complete">>,
       <<"MICRO", "navigation_start">>, <<"MICRO", "navigation_complete">>,
       <<"MICRO", "functionality_start">>, <<"MICRO", "functionality_complete">>,
       <<"MICRO", "error_handling_start">>, <<"MICRO", "error_handling_complete">>,
       <<"MACRO", "complete">> >>

\* C6: every audit_page call on a registry page appends exactly nine records
\* to checkpoint_history: the start and complete micro records of the four
\* phases in phase order, then the page's MACRO record, all for that page.
C6_AuditPageAppendsNineRecords ==
    [][ AuditStep
        => LET before == SessionOr(session_file).checkpoint_history
               after == session_file'[1].checkpoint_history
               n == Len(before)
           IN  /\ Len(after) = n + 9
               /\ SubSeq(after, 1, n) = before
               /\ \A k \in 1..9 : /\ after[n + k].type = AuditRecordOrder[k][1]
                                  /\ after[n + k].phase = AuditRecordOrder[k][2]
                                  /\ after[n + k].page = lastCall'.page
      ]_vars

\* C6 witness: a registry page was audited with the accessibility and
\* functionality phases failing and the navigation phase passing.
C6_Witness ==
    /\ lastCall.op = "audit_page"
    /\ lastCall.page \in PageSet
    /\ lastCall.phases = <<FALSE, TRUE, FALSE, TRUE>>

\* C7: the MACRO record audit_page writes is SUCCESS exactly when the
\* accessibility and the functionality phase passed, FAILED otherwise, whatever
\* navigation and error handling returned; audit_page returns true exactly when
\* it is SUCCESS.
C7_OverallStatusPolicy ==
    /\ \A a, n, f, e \in BOOLEAN :
          OverallStatus(a, n, f, e) = (IF a /\ f THEN "SUCCESS" ELSE "FAILED")
    /\ (lastCall.op = "audit_page" /\ lastCall.page \in PageSet) =>
          LET h == session_file[1].checkpoint_history
              macro == h[Len(h)]
              expected == IF lastCall.phases[1] /\ lastCall.phases[3] THEN "SUCCESS" ELSE "FAILED"
          IN  /\ macro.type = "MACRO"
              /\ macro.page = lastCall.page
              /\ macro.status = expected
              /\ session_file[1].last_checkpoint = <<macro>>
              /\ lastCall.ret = BoolText(expected = "SUCCESS")

\* C7 witness: a page audit whose navigation phase failed ended SUCCESS.
C7_Witness ==
    /\ lastCall.op = "audit_page"
    /\ lastCall.phases = <<TRUE, FALSE, TRUE, TRUE>>
    /\ lastCall.status = "SUCCESS"
    /\ lastCall.ret = "True"

\* C8: the health score of every report is
\* max(0, 100 - 25*critical - 10*high - 5*medium - low) of the tally it was
\* computed from, lies in 0..100, and is 52 for {critical 1, high 2, medium 0, low 3}.
C8_HealthScoreFormula ==
    \A i \in 1..Len(reports) :
        LET e == reports[i].errors
            raw == 100 - 25 * e.critical - 10 * e.high - 5 * e.medium - e.low
        IN  /\ reports[i].health_score = (IF raw < 0 THEN 0 ELSE raw)
            /\ reports[i].health_score \in 0..100
            /\ (e.critical = 1 /\ e.high = 2 /\ e.medium = 0 /\ e.low = 3)
                  => reports[i].health_score = 52

\* C8 witness: a report was generated from the tally {1, 2, 0, 3}.
C8_Witness ==
    \E i \in 1..Len(reports) :
        /\ reports[i].errors = [critical |-> 1, high |-> 2, medium |-> 0, low |-> 3, total |-> 6]
        /\ reports[i].health_score = 52

\* C9: with no session document, --status leaves the session document and the
\* counter file absent and reports that there is no active session, and
\* --audit-page X leaves exactly what initialize_session followed by
\* audit_page(X) leaves.
C9_StatusAndAuditWithoutSession ==
    [][ session_file = <<>>
        => /\ lastCall'.op = "status"
                => /\ session_file' = <<>>
                   /\ counter_file' = <<>>
                   /\ checkpoints' = checkpoints
                   /\ lastCall'.ret = "no_active_session"
           /\ (lastCall'.op = "audit_page" /\ run' = Idle)
                => \E r \in RequestSets :
                      LET a == audit_page(initialize_session(Disk), lastCall'.page, r)
                      IN  /\ session_file' = a.w.session_file
                          /\ counter_file' = a.w.counter_file
                          /\ checkpoints' = a.w.checkpoints
                          /\ lastCall'.ret = BoolText(a.ret)
                          /\ session_file' # <<>>
                          /\ lastCall'.page \in PageSet
                                => /\ counter_file' = <<10>>
                                   /\ Len(session_file'[1].checkpoint_history) = 10
      ]_vars

\* C9 witness: --status has just run with no session and no counter file.
C9_Witness ==
    /\ lastCall.op = "status"
    /\ lastCall.ret = "no_active_session"
    /\ session_file = <<>>
    /\ counter_file = <<>>

\* C10 (as claimed): a --full-audit command whose server check fails leaves the
\* session document, the counter file, the snapshots and the reports as they were.
C10_ServerDownChangesNothing ==
    [][ (lastCall'.op = "full_audit" /\ lastCall'.ret = "server_down")
        => /\ session_file' = session_file
           /\ counter_file' = counter_file
           /\ checkpoints' = checkpoints
           /\ reports' = reports
           /\ issued' = issued
      ]_vars

\* C10 (amended): when the server check fails no page is audited, no checkpoint
\* is created and no report is written; an existing session document and the
\* counter file stay as they were, and when there was no session document the
\* command leaves the fresh one of initialize_session and the counter file at 1.
C10_ServerDownAuditsNothing ==
    [][ (lastCall'.op = "full_audit" /\ lastCall'.ret = "server_down")
        => /\ checkpoints' = checkpoints
           /\ reports' = reports
           /\ issued' = issued
           /\ run' = Idle
           /\ session_file # <<>> => (session_file' = session_file /\ counter_file' = counter_file)
           /\ session_file = <<>> => (session_file' = <<session_data>> /\ counter_file' = <<1>>)
      ]_vars

\* C10 witness: the server check failed with a session on disk that already
\* holds a page audit.
C10_Witness ==
    /\ lastCall.op = "full_audit"
    /\ lastCall.ret = "server_down"
    /\ session_file # <<>>
    /\ Len(session_file[1].checkpoint_history) > 1

\* C11: once the server check has succeeded, full_audit calls audit_page on
\* the registry pages one by one in declared order, whether the call returns
\* or raises, and the run reaches generate_final_report with every page
\* attempted exactly once.
C11_FullAuditVisitsEveryPage ==
    /\ [][ (run.pc = "full_audit" /\ lastCall'.op = "audit_page")
             => /\ lastCall'.page = Pages[Len(run.attempted) + 1]
                /\ run'.pc = "full_audit"
                /\ run'.attempted = Append(run.attempted, lastCall'.page) ]_vars
    /\ [][ (lastCall'.op = "full_audit" /\ lastCall'.ret = "completed")
             => /\ run.attempted = Pages
                /\ Len(reports') = Len(reports) + 1 ]_vars
    /\ (run.pc = "full_audit") ~> (lastCall.op = "full_audit" /\ lastCall.ret = "completed")

\* C11 witness: a full audit completed although the audit of its first page
\* raised an exception.
C11_Witness ==
    /\ lastCall.op = "full_audit"
    /\ lastCall.ret = "completed"
    /\ lastCall.phases = Pages
    /\ \E f \in pages_dir : f.page = Pages[Len(Pages)]
    /\ ~ \E f \in pages_dir : f.page = Pages[1]

\* C13 (as claimed): an I/O error raised inside a page audit ends the running
\* command: once audit_page has raised it, no command is in progress any more,
\* so no further page is audited.
C13_IOErrorEndsCommand ==
    (lastCall.op = "audit_page" /\ lastCall.ret = "OSError") => run = Idle

\* The results batches on disk for a page and phase (at most one file)
Batches(page_name, test_phase) ==
    { f.results : f \in { g \in pages_dir : g.page = page_name /\ g.test_phase = test_phase } }

\* The results a phase function records for a request that failed at network level
IsFailedRequest(result) ==
    \/ result.test = "network"
    \/ result.details = ExceptionText
    \/ result.details = "connection_error"

\* Every page audit ran the four phases, each returned a boolean and left its
\* results batch, and the MACRO record of the page closes the history
AuditRanAllPhases ==
    (lastCall.op = "audit_page" /\ lastCall.page \in PageSet /\ lastCall.ret # "OSError") =>
        /\ Len(lastCall.phases) = 4
        /\ \A i \in 1..4 : lastCall.phases[i] \in BOOLEAN
        /\ \A i \in 1..4 : \E b \in Batches(lastCall.page, PhaseNames[i]) : b # <<>>
        /\ LET h == session_file[1].checkpoint_history
           IN  h[Len(h)].type = "MACRO" /\ h[Len(h)].page = lastCall.page

\* C12 (as claimed): every request that failed at network level is in its
\* phase's results batch as a result with status FAIL or INFO, and every page
\* audit, whatever failed, ran all four phases and recorded its MACRO checkpoint.
C12_NetworkFailureIsFailOrInfo ==
    /\ \A f \in pages_dir : \A i \in 1..Len(f.results) :
          IsFailedRequest(f.results[i]) => f.results[i].status \in {"FAIL", "INFO"}
    /\ AuditRanAllPhases

\* C12 (amended): a failed request is recorded as FAIL (test network, the only
\* result of the batch) by the accessibility, navigation and functionality
\* phases, as INFO for the invalid-route request and as WARN for the main-page
\* request of the error-handling phase; every page audit ran all four phases
\* and recorded its MACRO checkpoint.
C12_NetworkFailureIsRecorded ==
    /\ \A f \in pages_dir : \A i \in 1..Len(f.results) :
          LET res == f.results[i]
          IN  /\ res.test = "network"
                    => /\ res.status = "FAIL"
                       /\ f.results = << res >>
                       /\ f.test_phase \in {"accessibility", "navigation", "functionality"}
              /\ res.details = "connection_error"
                    => res.test = "404_handling" /\ res.status = "INFO"
              /\ (res.details = ExceptionText /\ res.test # "network")
                    => res.test = "error_boundaries" /\ res.status = "WARN"
    /\ AuditRanAllPhases
    /\ (lastCall.op = "audit_page" /\ lastCall.page \in PageSet /\ lastCall.ret # "OSError") =>
          \A i \in 1..3 :
              (~lastCall.phases[i]) =>
                  \E b \in Batches(lastCall.page, PhaseNames[i]) :
                      \E k \in 1..Len(b) : b[k].status = "FAIL"

\* C12 witness: a registry page was audited with the server unreachable for
\* all five requests; the four batches and the FAILED MACRO record are there.
C12_Witness ==
    /\ lastCall.op = "audit_page"
    /\ lastCall.page \in PageSet
    /\ lastCall.phases = <<FALSE, FALSE, FALSE, TRUE>>
    /\ \A i \in 1..3 :
          Batches(lastCall.page, PhaseNames[i]) =
              { << [test |-> "network", status |-> "FAIL", details |-> ExceptionText] >> }
    /\ Batches(lastCall.page, "error_handling") =
          { << [test |-> "404_handling", status |-> "INFO", details |-> "connection_error"],
               [test |-> "error_boundaries", status |-> "WARN", details |-> ExceptionText] >> }
    /\ session_file[1].last_checkpoint[1].status = "FAILED"

\* The change a step makes to one counter of error_summary
Delta(level) == session_file'[1].error_summary[level] - session_file[1].error_summary[level]

\* The step adds exactly these amounts to the four severities, and their sum to total
DeltaIs(critical, high, medium, low) ==
    /\ Delta("critical") = critical
    /\ Delta("high") = high
    /\ Delta("medium") = medium
    /\ Delta("low") = low
    /\ Delta("total") = critical + high + medium + low

\* The results batch the step's call left for its page and the given phase
NewBatch(test_phase) ==
    The({ f.results : f \in { g \in pages_dir' : g.page = lastCall'.page
                                                  /\ g.test_phase = test_phase } })

\* The batch on disk for the last call's page and the given phase
LastBatch(test_phase) == The(Batches(lastCall.page, test_phase))

HasTest(results, test) == \E i \in 1..Len(results) : results[i].test = test

One(b) == IF b THEN 1 ELSE 0

\* C14: an accessibility call that did not get a response leaves a batch of
\* exactly one result, test network with status FAIL, and none of the three
\* sub-checks; it adds 1 to critical and to total and nothing else, and it
\* returns failure.
C14_AccessibilityNetworkFailure ==
    [][ (lastCall'.op = "test_page_accessibility"
            /\ ~(/\ HasTest(NewBatch("accessibility"), "http_status")
                 /\ HasTest(NewBatch("accessibility"), "response_time")
                 /\ HasTest(NewBatch("accessibility"), "content_length")))
        => /\ Len(NewBatch("accessibility")) = 1
           /\ NewBatch("accessibility")[1].test = "network"
           /\ NewBatch("accessibility")[1].status = "FAIL"
           /\ DeltaIs(1, 0, 0, 0)
           /\ lastCall'.ret = "False"
      ]_vars

\* C14 witness: an accessibility call on a session with counted errors failed
\* at network level.
C14_Witness ==
    /\ lastCall.op = "test_page_accessibility"
    /\ LastBatch("accessibility") =
          << [test |-> "network", status |-> "FAIL", details |-> ExceptionText] >>
    /\ session_file[1].error_summary.critical = 2
    /\ session_file[1].error_summary.total = 7

\* C15: an accessibility call that got a response records the three sub-checks
\* in order, each classified by its threshold whatever the others are: status
\* 200 PASS else FAIL(+high); elapsed < 3000 PASS, < 5000 WARN(+medium), else
\* FAIL(+high); length > 1000 PASS else WARN(+low).  The tally grows by exactly
\* those severities, the call returns pass exactly when no sub-check is FAIL,
\* and (200, 500 ms, 5000 bytes) gives three PASS and an unchanged tally.
C15_AccessibilityThresholds ==
    [][ (lastCall'.op = "test_page_accessibility"
            /\ ~HasTest(NewBatch("accessibility"), "network"))
        => LET b == NewBatch("accessibility")
           IN  /\ Len(b) = 3
               /\ <<b[1].test, b[2].test, b[3].test>>
                     = <<"http_status", "response_time", "content_length">>
               /\ \E resp \in AccessResponses \ {NetworkError} :
                     LET st == IF resp.status = 200 THEN "PASS" ELSE "FAIL"
                         rt == IF resp.elapsed < 3000 THEN "PASS"
                               ELSE IF resp.elapsed <= 4999 THEN "WARN" ELSE "FAIL"
                         cl == IF resp.length > 1000 THEN "PASS" ELSE "WARN"
                     IN  /\ b[1].details = ToString(resp.status)
                         /\ b[2].details = ToString(resp.elapsed) \o "ms"
                         /\ b[3].details = ToString(resp.length) \o "bytes"
                         /\ <<b[1].status, b[2].status, b[3].status>> = <<st, rt, cl>>
                         /\ DeltaIs(0, One(st = "FAIL") + One(rt = "FAIL"),
                                    One(rt = "WARN"), One(cl = "WARN"))
                         /\ lastCall'.ret = BoolText(st # "FAIL" /\ rt # "FAIL")
                         /\ (resp.status = 200 /\ resp.elapsed = 500 /\ resp.length = 5000)
                               => /\ <<st, rt, cl>> = <<"PASS", "PASS", "PASS">>
                                  /\ session_file'[1].error_summary = session_file[1].error_summary
      ]_vars

\* C15 witness: a 500 answer of exactly 3000 ms and 1000 bytes was classified
\* FAIL, WARN, WARN on a session that already had counted errors.
C15_Witness ==
    /\ lastCall.op = "test_page_accessibility"
    /\ LastBatch("accessibility") =
          << [test |-> "http_status", status |-> "FAIL", details |-> "500"],
             [test |-> "response_time", status |-> "WARN", details |-> "3000ms"],
             [test |-> "content_length", status |-> "WARN", details |-> "1000bytes"] >>
    /\ session_file[1].error_summary =
          [critical |-> 1, high |-> 3, medium |-> 1, low |-> 4, total |-> 9]
    /\ lastCall.ret = "False"

\* The page-specific sub-checks that count a medium error when they do not pass
MediumSpecificTests == {"dashboard_cards", "dashboard_metrics", "products_content"}

\* The result of the css sub-check in a functionality batch is FAIL
CssFailed(results) ==
    \E i \in 1..Len(results) : results[i].test = "css" /\ results[i].status = "FAIL"

C17_NavigationThresholds ==
    [][ (lastCall'.op = "test_page_navigation" /\ ~HasTest(NewBatch("navigation"), "network"))
        => LET b == NewBatch("navigation")
               found == Cardinality({ i \in 1..6 : b[i].status = "PASS" })
           IN  /\ Len(b) = 7
               /\ \A i \in 1..6 : /\ b[i].test = "nav_" \o nav_tests[i]
                                  /\ b[i].status \in {"PASS", "WARN"}
                                  /\ b[i].details = (IF b[i].status = "PASS" THEN "found"
                                                     ELSE "missing")
               /\ b[7].test = "navigation_overall"
               /\ b[7].details = ToString(found) \o "/6"
               /\ b[7].status = (IF found >= 4 THEN "PASS"
                                 ELSE IF found \in {2, 3} THEN "WARN" ELSE "FAIL")
               /\ DeltaIs(0, One(found < 2), One(found \in {2, 3}), 0)
               /\ lastCall'.ret = BoolText(found >= 2)
               /\ (found >= 2) <=> ~AnyFail(b)
      ]_vars

\* C17 witness: exactly three of the six markers were found, the overall
\* result is WARN and the call returned pass.
C17_Witness ==
    /\ lastCall.op = "test_page_navigation"
    /\ lastCall.ret = "True"
    /\ LET b == LastBatch("navigation")
       IN  /\ Len(b) = 7
           /\ Cardinality({ i \in 1..6 : b[i].status = "PASS" }) = 3
           /\ b[7].status = "WARN"

\* C18: test_error_handling returns success whatever its two requests gave;
\* it adds 1 to low and to total exactly when the invalid route answered with
\* a status other than 404 (404_handling WARN), and nothing otherwise.
C18_ErrorHandlingAdvisory ==
    [][ lastCall'.op = "test_error_handling"
        => LET b == NewBatch("error_handling")
               unexpected == b[1].details \notin {"proper_404", "connection_error"}
           IN  /\ lastCall'.ret = "True"
               /\ Len(b) = 2
               /\ b[1].test = "404_handling"
               /\ b[2].test = "error_boundaries"
               /\ b[1].status = (IF unexpected THEN "WARN"
                                 ELSE IF b[1].details = "proper_404" THEN "PASS" ELSE "INFO")
               /\ unexpected <=> (\E resp \in InvalidRouteResponses :
                                     /\ ~resp.net
                                     /\ resp.status # 404
                                     /\ b[1].details = "status_" \o ToString(resp.status))
               /\ DeltaIs(0, 0, 0, One(unexpected))
      ]_vars

\* C18 witness: the invalid route answered 500 and the main page could not be
\* reached; the call returned success and counted one low error.
C18_Witness ==
    /\ lastCall.op = "test_error_handling"
    /\ lastCall.ret = "True"
    /\ calls = 1
    /\ LastBatch("error_handling") =
          << [test |-> "404_handling", status |-> "WARN", details |-> "status_500"],
             [test |-> "error_boundaries", status |-> "WARN", details |-> ExceptionText] >>
    /\ session_file[1].error_summary = [critical |-> 1, high |-> 2, medium |-> 0, low |-> 4, total |-> 7]

\* The counter number embedded in a checkpoint record
RecordCounter(record) ==
    IF record.type = "MACRO" THEN record.checkpoint_id.counter ELSE record.id.counter

\* The counter numbers of the MACRO and MICRO records of checkpoint_history
HistoryCounters ==
    LET h == session_file[1].checkpoint_history
    IN  [i \in 1..(Len(h) - 1) |-> RecordCounter(h[i + 1])]

\* C19: with the process killed at any point inside create_checkpoint or
\* create_micro_checkpoint, the counter file holds an integer greater than the
\* number of every record in checkpoint_history; the numbers handed out never
\* repeat, so a later checkpoint never gets a number again; a number handed out
\* may be missing from the history (a gap), but every record of the history
\* has a number that was handed out, once.
C19_CrashLeavesOnlyGaps ==
    /\ counter_file # <<>>
    /\ \A i \in 1..Len(HistoryCounters) : HistoryCounters[i] < counter_file[1]
    /\ \A i \in 1..Len(issued) : issued[i].counter < counter_file[1]
    /\ StrictlyIncreasing(IssuedCounters)
    /\ StrictlyIncreasing(HistoryCounters)
    /\ Range(HistoryCounters) \subseteq Range(IssuedCounters)

\* C19 witness: a call was killed after the counter was written and before
\* the record was, and a later call recorded a checkpoint: its number lies
\* above the gap.
C19_Witness ==
    \E i \in 1..Len(issued) :
        /\ issued[i].counter \notin Range(HistoryCounters)
        /\ \E j \in 1..Len(HistoryCounters) : HistoryCounters[j] > issued[i].counter

\* C20: every create_checkpoint call that returns leaves the snapshot file of
\* the identifier it built, holding the session document exactly as the call
\* saved it (the new MACRO record last in the history and, for SUCCESS, the
\* page among the completed ones), and touches no other snapshot; a
\* create_micro_checkpoint call leaves the snapshot files as they were.
C20_SnapshotEqualsSavedSession ==
    [][ /\ (calls' = calls + 1 /\ lastCall'.op = "create_checkpoint" /\ lastCall'.ret # "killed")
           => LET checkpoint_id == issued'[Len(issued')]
                  doc == session_file'[1]
              IN  /\ Len(issued') = Len(issued) + 1
                  /\ { c \in checkpoints' : c.id = checkpoint_id }
                        = { [id |-> checkpoint_id, doc |-> doc] }
                  /\ { c \in checkpoints' : c.id # checkpoint_id }
                        = { c \in checkpoints : c.id # checkpoint_id }
                  /\ doc.last_checkpoint[1].checkpoint_id = checkpoint_id
                  /\ doc.checkpoint_history[Len(doc.checkpoint_history)] = doc.last_checkpoint[1]
                  /\ lastCall'.status = "SUCCESS" => In(lastCall'.page, doc.progress.pages_completed)
        /\ (calls' = calls + 1 /\ lastCall'.op = "create_micro_checkpoint")
           => /\ checkpoints' = checkpoints
              /\ session_file' # session_file
      ]_vars

\* C20 witness: after micro checkpoints, a SUCCESS macro checkpoint of a
\* registry page has its snapshot on disk, equal to the session document.
C20_Witness ==
    /\ lastCall.op = "create_checkpoint"
    /\ lastCall.status = "SUCCESS"
    /\ lastCall.page \in PageSet
    /\ \E i \in 1..Len(session_file[1].checkpoint_history) :
          session_file[1].checkpoint_history[i].type = "MICRO"
    /\ \E c \in checkpoints :
          /\ c.id = session_file[1].last_checkpoint[1].checkpoint_id
          /\ c.doc = session_file[1]
          /\ In(lastCall.page, c.doc.progress.pages_completed)

\* The five counters of error_summary
Counters == ErrorLevels \cup {"total"}

\* The step just taken started a new session (initialize_session overwrote the document)
NewSession == lastCall'.op = "initialize_session"

\* C22: in a single-process run of initialize_session, update_error_count,
\* page audits (with their phase functions) and checkpoint creations,
\* error_summary.total equals critical + high + medium + low in every state,
\* and within a session no step lowers any of the five counters.
C22_TotalIsSumAndCountersGrow ==
    /\ [](LET e == session_file[1].error_summary
          IN  e.total = e.critical + e.high + e.medium + e.low)
    /\ [][ ~NewSession
           => \A c \in Counters :
                 session_file'[1].error_summary[c] >= session_file[1].error_summary[c] ]_vars

\* C22 witness: a checkpoint was created in a session in which a page audit
\* and a direct update_error_count call had counted errors of three severities.
C22_Witness ==
    /\ lastCall.op = "create_checkpoint"
    /\ LET e == session_file[1].error_summary
       IN  /\ e.critical >= 1
           /\ e.high >= 1
           /\ e.low >= 1
           /\ e.total >= 4

\* The positions of the MACRO records in a checkpoint history
MacroIndices(history) == { i \in 1..Len(history) : history[i].type = "MACRO" }

\* The largest element of a non-empty set of numbers
Last(S) == CHOOSE i \in S : \A j \in S : j <= i

\* C23: last_checkpoint is null exactly when checkpoint_history holds no MACRO
\* record, and otherwise it is the MACRO record appended last; a
\* create_micro_checkpoint or update_error_count call leaves it as it was.
C23_LastCheckpointIsLatestMacro ==
    /\ [](LET session == session_file[1]
              macros == MacroIndices(session.checkpoint_history)
          IN  /\ (session.last_checkpoint = <<>>) <=> (macros = {})
              /\ macros # {}
                   => session.last_checkpoint = << session.checkpoint_history[Last(macros)] >>)
    /\ [][ (calls' = calls + 1 /\ lastCall'.op \in {"create_micro_checkpoint", "update_error_count"})
           => /\ session_file'[1].last_checkpoint = session_file[1].last_checkpoint
              /\ session_file' # session_file ]_vars

\* C23 witness: a micro checkpoint was recorded after two MACRO checkpoints;
\* last_checkpoint is the second MACRO record, which is no longer the last
\* record of the history.
C23_Witness ==
    /\ lastCall.op = "create_micro_checkpoint"
    /\ LET h == session_file[1].checkpoint_history
       IN  /\ Len(h) = 4
           /\ h[2].type = "MACRO"
           /\ h[3].type = "MACRO"
           /\ h[4].type = "MICRO"
           /\ session_file[1].last_checkpoint = << h[3] >>
           /\ h[2] # h[3]

\* lst is an initial part of longer
IsPrefix(lst, longer) == Len(lst) <= Len(longer) /\ SubSeq(longer, 1, Len(lst)) = lst

\* C24: a create_checkpoint call whose status is not SUCCESS changes only
\* last_checkpoint and checkpoint_history of the session document (the new
\* MACRO record), so the progress block stays as it was; and within a session
\* every step only adds to pages_completed and only takes from pages_remaining,
\* so a page once completed stays completed and not remaining, also after a
\* later audit of that page that ends FAILED.
C24_FailedCheckpointKeepsProgress ==
    /\ [][ (calls' = calls + 1 /\ lastCall'.op = "create_checkpoint" /\ lastCall'.status # "SUCCESS")
           => LET before == session_file[1]
                  after == session_file'[1]
              IN  /\ after.progress = before.progress
                  /\ after = [before EXCEPT
                                !.last_checkpoint = after.last_checkpoint,
                                !.checkpoint_history = Append(@, after.last_checkpoint[1])]
                  /\ after.last_checkpoint[1].status = lastCall'.status ]_vars
    /\ [][ ~NewSession
           => LET before == session_file[1].progress
                  after == session_file'[1].progress
              IN  /\ IsPrefix(before.pages_completed, after.pages_completed)
                  /\ Range(after.pages_remaining) \subseteq Range(before.pages_remaining)
                  /\ \A p \in PageNames :
                        (In(p, before.pages_completed) /\ ~In(p, before.pages_remaining))
                           => (In(p, after.pages_completed) /\ ~In(p, after.pages_remaining))
                  /\ (calls' = calls + 1 /\ lastCall'.op = "audit_page" /\ lastCall'.status = "FAILED")
                        => after = before ]_vars

\* C24 witness: a registry page was audited with SUCCESS and then audited
\* again with FAILED; it is still completed, not remaining, and the completion
\* percentage still counts it.
C24_Witness ==
    /\ lastCall.op = "audit_page"
    /\ lastCall.status = "FAILED"
    /\ LET session == session_file[1]
       IN  /\ session.last_checkpoint[1].status = "FAILED"
           /\ In(lastCall.page, session.progress.pages_completed)
           /\ ~In(lastCall.page, session.progress.pages_remaining)
           /\ session.progress.completion_percentage > 0
           /\ \E i \in 1..Len(session.checkpoint_history) :
                 LET record == session.checkpoint_history[i]
                 IN  record.type = "MACRO" /\ record.page = lastCall.page
                                           /\ record.status = "SUCCESS"

\* C25: audit_page called with a key that is not in the registry returns false
\* having run no phase; the counter file, the session document (records,
\* current operation, error counts, progress), the snapshots and the results
\* files are as they were before the call, and no identifier was built.
C25_UnknownPageChangesNothing ==
    [][ (calls' = calls + 1 /\ lastCall'.op = "audit_page" /\ lastCall'.page \notin PageSet)
        => /\ lastCall'.ret = "False"
           /\ lastCall'.phases = <<>>
           /\ counter_file' = counter_file
           /\ session_file' = session_file
           /\ issued' = issued
           /\ checkpoints' = checkpoints
           /\ pages_dir' = pages_dir
      ]_vars

\* C25 witness: audit_page was called with an unknown key on a session that
\* holds the audit of a registry page with counted errors; the operation
\* recorded is still that of the registry page.
C25_Witness ==
    /\ lastCall.op = "audit_page"
    /\ lastCall.page = UnknownPage
    /\ lastCall.ret = "False"
    /\ session_file[1].current_operation.page \in PageSet
    /\ session_file[1].error_summary.total > 0
    /\ Len(session_file[1].checkpoint_history) = 10
    /\ counter_file = <<10>>

\* Process p takes the step that leaves program position pc
Leaves(p, pc) == run[p].pc = pc /\ run'[p].pc # pc

\* The calls that have returned, seen from a state in which no call is running
AllReturned == \A p \in Processes : run[p].pc = "idle"

\* C21: with the file operations of two processes interleaved, the last
\* writer wins.  get_next_checkpoint_counter returns the value the process
\* read and writes that value plus one, whatever the file holds by then; a
\* whole-document save leaves the document the saving process loaded plus its
\* own change only (one more record, or one more counted error), so what the
\* other process saved after that load is no longer in the document.
C21_LastWriterWins ==
    /\ [][ \A p \in Processes :
             Leaves(p, "write_counter")
             => /\ counter_file' = << run[p].counter + 1 >>
                /\ issued' = Append(issued, run'[p].ret[1])
                /\ run'[p].ret[1].counter = run[p].counter ]_vars
    /\ [][ \A p \in Processes :
             Leaves(p, "save")
             => LET loaded == run[p].session[1]
                    ondisk == session_file[1]
                    after == session_file'[1]
                    counts == run[p].op = "update_error_count"
                IN  /\ Len(after.checkpoint_history)
                          = Len(loaded.checkpoint_history) + One(~counts)
                    /\ SubSeq(after.checkpoint_history, 1, Len(loaded.checkpoint_history))
                          = loaded.checkpoint_history
                    /\ after.error_summary.total = loaded.error_summary.total + One(counts)
                    /\ ~counts =>
                          /\ RecordCounter(after.checkpoint_history[Len(after.checkpoint_history)])
                                = run[p].counter
                          /\ after.error_summary = loaded.error_summary
                    /\ Len(ondisk.checkpoint_history) > Len(loaded.checkpoint_history)
                          => Len(after.checkpoint_history) <= Len(ondisk.checkpoint_history)
                    /\ ondisk.error_summary.total > loaded.error_summary.total
                          => after.error_summary.total <= ondisk.error_summary.total ]_vars

\* C21 witness: three calls have returned, two checkpoint calls and an
\* update_error_count call.  The two processes got the same counter value for
\* their checkpoints, the history holds only one of the two records, and the
\* counted error is gone.
C21_Witness ==
    /\ AllReturned
    /\ calls = 3
    /\ Len(issued) = 2
    /\ issued[1].counter = issued[2].counter
    /\ issued[1].page # issued[2].page
    /\ \E p \in Processes : run[p].op = "update_error_count"
    /\ Len(session_file[1].checkpoint_history) = 2
    /\ session_file[1].error_summary.total = 0
    /\ counter_file = <<2>>

====
